---- MODULE Spec2Model ----
(* A model of the Random Coffee bot: the history miner fetch_recent_pairs and  *)
(* the pair constructor create_pairs of random_coffee/pairing.py, and the      *)
(* scheduled run pair_and_notify of random_coffee/main.py.                     *)
EXTENDS Integers, Sequences, FiniteSets, TLC

VARIABLES
  pc,            \* position of the call in progress
  entry,         \* the function that was called
  members,       \* argument: list of member dicts
  blocked_pairs, \* argument: set of blocked (id, id) tuples
  member_by_id,  \* create_pairs: dict id -> member
  member_ids,    \* create_pairs: list of the dict's keys
  allowed_pairs, \* create_pairs: list of (id1, id2) not blocked
  rest,          \* positions of allowed_pairs the shuffled walk has not reached yet
  taken,         \* create_pairs: set of claimed ids
  pairs,         \* create_pairs: list of groups
  unpaired,      \* create_pairs: list of unclaimed members
  outcome,       \* "none", "returned" or the exception raised
  users,         \* Slack: the users of the channel, as users_info describes them
  calls,         \* Slack: the chat_postMessage calls made so far
  stream,        \* the tokens the channel history was written from
  messages,      \* Slack: the texts of the messages conversations_history returns
  scanned,       \* fetch_recent_pairs: messages the loop has been through
  retrieval,     \* fetch_recent_pairs: how the retrieval of the history went
  run,           \* 1 for a call, 2 for the same call made again with the same random numbers
  tape,          \* the places the shuffle drew in run 1, still to come in run 2
  trio_index,    \* the random_pair_index drawn in run 1
  first          \* the list run 1 returned

vars == <<pc, entry, members, blocked_pairs, member_by_id, member_ids,
          allowed_pairs, rest, taken, pairs, unpaired, outcome, users, calls,
          stream, messages, scanned, retrieval, run, tape, trio_index, first>>

minerVars == <<stream, messages, scanned, retrieval>>
replayVars == <<run, tape, trio_index, first>>

constructorVars == <<member_by_id, member_ids, allowed_pairs, rest, taken, unpaired>>

----------------------------------------------------------------------------
(* Strings are sequences of one-character strings; CodeOrder lists the       *)
(* characters the model uses in code point order, which is the order Python  *)
(* compares strings by.                                                      *)
UpperCase ==
  << "A", "B", "C", "D", "E", "F", "G", "H", "I", "J", "K", "L", "M",
     "N", "O", "P", "Q", "R", "S", "T", "U", "V", "W", "X", "Y", "Z" >>
LowerCase ==
  << "a", "b", "c", "d", "e", "f", "g", "h", "i", "j", "k", "l", "m",
     "n", "o", "p", "q", "r", "s", "t", "u", "v", "w", "x", "y", "z" >>
Digits == <<"0", "1", "2", "3", "4", "5", "6", "7", "8", "9">>
CodeOrder ==
  <<"\n", " ", "!", "&", ",", ".">> \o Digits \o <<":", "<", ">", "@">> \o UpperCase \o LowerCase

Ord(c) == CHOOSE i \in 1..Len(CodeOrder) : CodeOrder[i] = c

RECURSIVE StrLess(_, _)
StrLess(s, t) ==
  IF t = <<>> THEN FALSE
  ELSE IF s = <<>> THEN TRUE
  ELSE IF Head(s) = Head(t) THEN StrLess(Tail(s), Tail(t))
  ELSE Ord(Head(s)) < Ord(Head(t))

(* str.lower() *)
LowerChar(c) ==
  IF \E i \in 1..26 : UpperCase[i] = c
    THEN LowerCase[CHOOSE i \in 1..26 : UpperCase[i] = c]
    ELSE c
Lower(s) == [i \in 1..Len(s) |-> LowerChar(s[i])]

(* tuple(sorted([a, b])): the mutant keeps the order of the arguments *)
PairKeyUnsorted(a, b) == <<a, b>>

PairKey(a, b) == IF StrLess(b, a) THEN <<b, a>> ELSE <<a, b>>

----------------------------------------------------------------------------
(* Inputs *)
MaxN == 4

UserId(i) == <<"U", Digits[i + 1]>>
Member(i) == [id |-> UserId(i), name |-> i]

Ascending(n) == [i \in 1..n |-> Member(i)]
Descending(n) == [i \in 1..n |-> Member(n + 1 - i)]
MemberLists == UNION { {Ascending(n), Descending(n)} : n \in 0..MaxN }

IdsOf(ms) == { ms[i].id : i \in 1..Len(ms) }

(* the canonical keys over the first n ids, and over a set of member numbers *)
KeysAmong(S) == { <<UserId(p[1]), UserId(p[2])>> : p \in { q \in S \X S : q[1] < q[2] } }
KeysUpTo(n) == KeysAmong(1..n)

(* the users of the channel: n people, and possibly one user that the filter
   of get_channel_members drops, at any place of the list *)
Human(i) ==
  [id |-> UserId(i), name |-> <<"u", Digits[i + 1]>>, real_name |-> i,
   is_bot |-> FALSE, deleted |-> FALSE]
Dropped ==
  { [id |-> <<"U", "B">>, name |-> <<"b", "o", "t">>, real_name |-> 0,
     is_bot |-> TRUE, deleted |-> FALSE],
    [id |-> <<"U", "D">>, name |-> <<"d", "a", "n">>, real_name |-> 0,
     is_bot |-> FALSE, deleted |-> TRUE],
    [id |-> <<"U", "A">>, name |-> <<"A", "d", "m", "i", "n">>, real_name |-> 0,
     is_bot |-> FALSE, deleted |-> FALSE] }
Humans(n) == [i \in 1..n |-> Human(i)]
InsertAt(us, p, x) == SubSeq(us, 1, p) \o <<x>> \o SubSeq(us, p + 1, Len(us))
ChannelUsers ==
  UNION { {Humans(n)} \cup { InsertAt(Humans(n), p, x) : p \in 0..n, x \in Dropped } :
          n \in 0..(MaxN + 1) }

(* every blocking set over the members of a list of up to MaxN members; the
   larger lists are tried with all, or all but one, of the members mutually
   blocked, and the list of MaxN + 1 members also with nothing blocked and with
   its last member blocked with every other one *)
LargeLists == { Ascending(n) : n \in (MaxN + 1)..(MaxN + 2) }

BlockingSets(ms) ==
  IF Len(ms) <= MaxN
    THEN SUBSET KeysUpTo(Len(ms))
    ELSE { KeysAmong(S) : S \in { T \in SUBSET (1..Len(ms)) : Cardinality(T) >= Len(ms) - 1 } }
         \cup (IF Len(ms) = MaxN + 1
                THEN {{}, KeysUpTo(Len(ms)) \ KeysUpTo(Len(ms) - 1)}
                ELSE {})

----------------------------------------------------------------------------
(* create_pairs *)

(* member_by_id = {m["id"]: m for m in members}: the last member wins *)
MemberById(ms) ==
  [ k \in IdsOf(ms) |->
      ms[CHOOSE i \in 1..Len(ms) :
            ms[i].id = k /\ \A j \in (i + 1)..Len(ms) : ms[j].id # k] ]

(* list(member_by_id.keys()): the ids in order of first insertion *)
RECURSIVE MemberIds(_, _)
MemberIds(ms, seen) ==
  IF ms = <<>> THEN <<>>
  ELSE IF Head(ms).id \in seen THEN MemberIds(Tail(ms), seen)
  ELSE <<Head(ms).id>> \o MemberIds(Tail(ms), seen \cup {Head(ms).id})

(* the nested loop that builds allowed_pairs, from position (i, j) on *)
RECURSIVE AllowedPairsIgnoringBlocked(_, _, _, _)
AllowedPairsIgnoringBlocked(ids, blocked, i, j) ==
  IF i > Len(ids) THEN <<>>
  ELSE IF j > Len(ids) THEN AllowedPairsIgnoringBlocked(ids, blocked, i + 1, i + 2)
  ELSE << <<ids[i], ids[j]>> >> \o AllowedPairsIgnoringBlocked(ids, blocked, i, j + 1)

RECURSIVE AllowedPairs(_, _, _, _)
AllowedPairs(ids, blocked, i, j) ==
  IF i > Len(ids) THEN <<>>
  ELSE IF j > Len(ids) THEN AllowedPairs(ids, blocked, i + 1, i + 2)
  ELSE (IF PairKey(ids[i], ids[j]) \notin blocked
          THEN << <<ids[i], ids[j]>> >> ELSE <<>>)
       \o AllowedPairs(ids, blocked, i, j + 1)

(* [member_by_id[mid] for mid in member_ids if mid not in taken] *)
RECURSIVE Unpaired(_, _, _)
Unpaired(ids, byId, tk) ==
  IF ids = <<>> THEN <<>>
  ELSE (IF Head(ids) \notin tk THEN <<byId[Head(ids)]>> ELSE <<>>)
       \o Unpaired(Tail(ids), byId, tk)

(* for i in range(0, len(unpaired) - 1, 2): pairs.append([unpaired[i], unpaired[i + 1]]) *)
(* mutant: the range stops one short *)
RECURSIVE PairOffShort(_, _, _)
PairOffShort(ps, un, i) ==
  IF i >= Len(un) - 2 THEN ps
  ELSE PairOffShort(Append(ps, <<un[i + 1], un[i + 2]>>), un, i + 2)

RECURSIVE PairOff(_, _, _)
PairOff(ps, un, i) ==
  IF i >= Len(un) - 1 THEN ps
  ELSE PairOff(Append(ps, <<un[i + 1], un[i + 2]>>), un, i + 2)

(* if len(unpaired) % 2 == 1 and len(pairs) > 0: pairs[-1].append(unpaired[-1]) *)
AppendOddDropped(ps, un) == ps

AppendOdd(ps, un) ==
  IF Len(un) % 2 = 1 /\ Len(ps) > 0
    THEN [ps EXCEPT ![Len(ps)] = Append(@, un[Len(un)])]
    ELSE ps

(* create_pairs is called directly with every input; run_pairing_test, which
   adds only the length check, with the lists around its threshold *)
EntryPoints(ms) ==
  IF Len(ms) <= 3 THEN {"create_pairs", "run_pairing_test"} ELSE {"create_pairs"}

(* run_pairing_test: len(members) < 2; the mutant rejects only the empty list *)
NotEnoughMembersOffByOne(ms) == Len(ms) < 1

NotEnoughMembers(ms) == Len(ms) < 2

Init ==
  /\ pc = "start"
  /\ entry \in {"create_pairs", "run_pairing_test", "pair_and_notify"}
  /\ IF entry = "pair_and_notify"
       THEN /\ users \in ChannelUsers
            /\ members = <<>>
            /\ blocked_pairs = {}
       ELSE /\ users = <<>>
            /\ members \in MemberLists \cup LargeLists
            /\ blocked_pairs \in BlockingSets(members)
            /\ entry \in EntryPoints(members)
  /\ member_by_id = <<>>
  /\ member_ids = <<>>
  /\ allowed_pairs = <<>>
  /\ rest = {}
  /\ taken = {}
  /\ pairs = <<>>
  /\ unpaired = <<>>
  /\ outcome = "none"
  /\ calls = <<>>
  /\ stream = <<>>
  /\ messages = <<>>
  /\ scanned = 0
  /\ retrieval = "none"
  /\ run = 1
  /\ tape = <<>>
  /\ trio_index = 0
  /\ first = <<>>

(* run_pairing_test with members given: the length check before create_pairs *)
RunPairingTestRejects ==
  /\ pc = "start" /\ entry = "run_pairing_test"
  /\ NotEnoughMembers(members)
  /\ pc' = "done"
  /\ outcome' = "ValueError"
  /\ UNCHANGED <<entry, members, blocked_pairs, member_by_id, member_ids,
                 allowed_pairs, rest, taken, pairs, unpaired, users, calls>>
  /\ UNCHANGED minerVars
  /\ UNCHANGED replayVars

(* create_pairs up to random.shuffle: called directly, or by run_pairing_test
   once the length check has passed *)
CreatePairsBegin ==
  /\ pc = "start"
  /\ entry \in {"create_pairs", "run_pairing_test"}
  /\ entry = "run_pairing_test" => ~NotEnoughMembers(members)
  /\ member_by_id' = MemberById(members)
  /\ member_ids' = MemberIds(members, {})
  /\ allowed_pairs' = AllowedPairs(member_ids', blocked_pairs, 1, 2)
  /\ rest' = 1..Len(allowed_pairs')
  /\ taken' = {}
  /\ pairs' = <<>>
  /\ pc' = "greedy"
  /\ UNCHANGED <<entry, members, blocked_pairs, unpaired, outcome, users, calls>>
  /\ UNCHANGED minerVars
  /\ UNCHANGED replayVars

(* mutant: the iteration takes a pair of its own choice, not the one drawn *)
GreedyIterationUnseeded(k) ==
  /\ pc = "greedy"
  /\ \E j \in rest :
       /\ rest' = rest \ {j}
       /\ IF allowed_pairs[j][1] \notin taken /\ allowed_pairs[j][2] \notin taken
            THEN /\ pairs' = Append(pairs, <<member_by_id[allowed_pairs[j][1]],
                                             member_by_id[allowed_pairs[j][2]]>>)
                 /\ taken' = taken \cup {allowed_pairs[j][1], allowed_pairs[j][2]}
            ELSE UNCHANGED <<pairs, taken>>
  /\ UNCHANGED <<pc, entry, members, blocked_pairs, member_by_id, member_ids,
                 allowed_pairs, unpaired, outcome, users, calls>>
  /\ UNCHANGED minerVars

(* one iteration of the greedy loop over the shuffled list; k is the position
   (in the unshuffled list) of the pair the shuffle put next *)
GreedyIteration(k) ==
  /\ pc = "greedy"
  /\ k \in rest
  /\ rest' = rest \ {k}
  /\ LET id1 == allowed_pairs[k][1]
         id2 == allowed_pairs[k][2]
     IN IF id1 \notin taken /\ id2 \notin taken
          THEN /\ pairs' = Append(pairs, <<member_by_id[id1], member_by_id[id2]>>)
               /\ taken' = taken \cup {id1, id2}
          ELSE UNCHANGED <<pairs, taken>>
  /\ UNCHANGED <<pc, entry, members, blocked_pairs, member_by_id, member_ids,
                 allowed_pairs, unpaired, outcome, users, calls>>
  /\ UNCHANGED minerVars

GreedyStep == (\E k \in rest : GreedyIteration(k)) /\ UNCHANGED replayVars

(* the loop is over: collect the unpaired members *)
CollectUnpaired ==
  /\ pc = "greedy"
  /\ rest = {}
  /\ unpaired' = Unpaired(member_ids, member_by_id, taken)
  /\ pc' = "residual"
  /\ UNCHANGED <<entry, members, blocked_pairs, member_by_id, member_ids,
                 allowed_pairs, rest, taken, pairs, outcome, users, calls>>
  /\ UNCHANGED minerVars
  /\ UNCHANGED replayVars

(* mutant: the odd member becomes a group of its own *)
AddToRandomPairAsSolo(idx) ==
  /\ pc = "residual"
  /\ Len(unpaired) = 1 /\ Len(pairs) > 0
  /\ idx \in 0..(Len(pairs) - 1)
  /\ pairs' = Append(pairs, <<unpaired[1]>>)
  /\ pc' = "done"
  /\ outcome' = "returned"
  /\ UNCHANGED <<entry, members, blocked_pairs, member_by_id, member_ids,
                 allowed_pairs, rest, taken, unpaired, users, calls>>
  /\ UNCHANGED minerVars

(* len(unpaired) == 1 and len(pairs) > 0: random_pair_index = idx *)
AddToRandomPair(idx) ==
  /\ pc = "residual"
  /\ Len(unpaired) = 1 /\ Len(pairs) > 0
  /\ idx \in 0..(Len(pairs) - 1)
  /\ pairs' = [pairs EXCEPT ![idx + 1] = Append(@, unpaired[1])]
  /\ pc' = "done"
  /\ outcome' = "returned"
  /\ UNCHANGED <<entry, members, blocked_pairs, member_by_id, member_ids,
                 allowed_pairs, rest, taken, unpaired, users, calls>>
  /\ UNCHANGED minerVars

TrioStep == (\E idx \in 0..(Len(pairs) - 1) : AddToRandomPair(idx)) /\ UNCHANGED replayVars

(* len(unpaired) > 1 *)
PairUnpaired ==
  /\ pc = "residual"
  /\ Len(unpaired) > 1
  /\ pairs' = AppendOdd(PairOff(pairs, unpaired, 0), unpaired)
  /\ pc' = "done"
  /\ outcome' = "returned"
  /\ UNCHANGED <<entry, members, blocked_pairs, member_by_id, member_ids,
                 allowed_pairs, rest, taken, unpaired, users, calls>>
  /\ UNCHANGED minerVars
  /\ UNCHANGED replayVars

(* neither branch *)
ReturnPairs ==
  /\ pc = "residual"
  /\ ~(Len(unpaired) = 1 /\ Len(pairs) > 0)
  /\ ~(Len(unpaired) > 1)
  /\ pc' = "done"
  /\ outcome' = "returned"
  /\ UNCHANGED <<entry, members, blocked_pairs, member_by_id, member_ids,
                 allowed_pairs, rest, taken, pairs, unpaired, users, calls>>
  /\ UNCHANGED minerVars
  /\ UNCHANGED replayVars

----------------------------------------------------------------------------
(* main.py: the scheduled run *)

DEFAULT_ERROR_RECIPIENT == "@dchebakov"
Channel == "#general"

(* mutant: no message is sent *)
SendErrorToAdminDropped(log, context, ok) == log

(* send_error_to_admin: one chat_postMessage to the administrator; ok tells
   whether Slack accepted it, and an exception of the call is swallowed *)
SendErrorToAdmin(log, context, ok) ==
  Append(log, [channel |-> DEFAULT_ERROR_RECIPIENT, text |-> context, ok |-> ok])

(* the filter of get_channel_members; the mutant keeps every user *)
EligibleAll(u) == TRUE

Eligible(u) ==
  /\ ~u.is_bot
  /\ ~u.deleted
  /\ Lower(u.name) # <<"a", "d", "m", "i", "n">>

RECURSIVE MainMembers(_)
MainMembers(us) ==
  IF us = <<>> THEN <<>>
  ELSE (IF Eligible(Head(us))
          THEN <<[id |-> Head(us).id, name |-> Head(us).real_name]>>
          ELSE <<>>)
       \o MainMembers(Tail(us))

(* get_channel_members as pair_and_notify calls it: found tells whether the
   channel is in the list Slack returns, fail names the exception a Slack call
   raises ("none": no call fails) *)
GetChannelMembers(found, fail, adminOk) ==
  /\ pc = "start" /\ entry = "pair_and_notify"
  /\ IF fail # "none"
       THEN /\ members' = <<>>
            /\ calls' = SendErrorToAdmin(calls, "Failed to fetch members", adminOk)
       ELSE /\ members' = IF found THEN MainMembers(users) ELSE <<>>
            /\ calls' = calls
  /\ pc' = "got_members"
  /\ UNCHANGED <<entry, blocked_pairs, pairs, outcome, users>>
  /\ UNCHANGED constructorVars
  /\ UNCHANGED minerVars
  /\ UNCHANGED replayVars

GetChannelMembersStep ==
  \E found \in BOOLEAN, fail \in {"none", "SlackApiError", "Exception"}, adminOk \in BOOLEAN :
    /\ fail = "none" => adminOk
    /\ fail # "none" => found
    /\ GetChannelMembers(found, fail, adminOk)

(* len(members) < 2: warn the administrator and return *)
WarnNotEnoughMembers(adminOk) ==
  /\ pc = "got_members"
  /\ Len(members) < 2
  /\ calls' = SendErrorToAdmin(calls, "Pairing Process Warning", adminOk)
  /\ pc' = "done"
  /\ outcome' = "returned"
  /\ UNCHANGED <<entry, members, blocked_pairs, pairs, users>>
  /\ UNCHANGED constructorVars
  /\ UNCHANGED minerVars
  /\ UNCHANGED replayVars

WarnStep == \E adminOk \in BOOLEAN : WarnNotEnoughMembers(adminOk)

(* create_pairs of main.py on the shuffled copy: consecutive pairs, and the
   odd last member appended to the pair at random_pair_index *)
MainPairOff(shuffled) ==
  [i \in 1..(Len(shuffled) \div 2) |-> <<shuffled[2 * i - 1], shuffled[2 * i]>>]

MainCreatePairsSolo(shuffled, index) ==
  IF Len(shuffled) % 2 = 1 /\ Len(MainPairOff(shuffled)) > 0
    THEN Append(MainPairOff(shuffled), <<shuffled[Len(shuffled)]>>)
    ELSE MainPairOff(shuffled)

MainCreatePairs(shuffled, index) ==
  IF Len(shuffled) % 2 = 1 /\ Len(MainPairOff(shuffled)) > 0
    THEN [MainPairOff(shuffled) EXCEPT ![index + 1] = Append(@, shuffled[Len(shuffled)])]
    ELSE MainPairOff(shuffled)

Shuffles(list) ==
  { [i \in 1..Len(list) |-> list[f[i]]] : f \in Permutations(1..Len(list)) }

MainCreatePairsStep ==
  /\ pc = "got_members"
  /\ ~(Len(members) < 2)
  /\ \E shuffled \in Shuffles(members), index \in 0..(Len(members) \div 2 - 1) :
       /\ Len(members) % 2 = 0 => index = 0
       /\ pairs' = MainCreatePairs(shuffled, index)
  /\ pc' = "paired"
  /\ UNCHANGED <<entry, members, blocked_pairs, outcome, users, calls>>
  /\ UNCHANGED constructorVars
  /\ UNCHANGED minerVars
  /\ UNCHANGED replayVars

(* mutant: only SlackApiError is caught, any other exception leaves the run *)
PostPairingsUncaught(post, adminOk) ==
  /\ pc = "paired"
  /\ LET sent == Append(calls, [channel |-> Channel, text |-> <<"pairings", pairs>>,
                                ok |-> post = "none"])
     IN calls' = IF post = "SlackApiError"
                   THEN SendErrorToAdmin(sent, "Failed to complete pairing", adminOk)
                   ELSE sent
  /\ pc' = "done"
  /\ outcome' = IF post = "Exception" THEN "Exception" ELSE "returned"
  /\ UNCHANGED <<entry, members, blocked_pairs, pairs, users>>
  /\ UNCHANGED constructorVars
  /\ UNCHANGED minerVars
  /\ UNCHANGED replayVars

(* create_pairing_message and chat_postMessage to the channel; post names the
   exception the call raises ("none": delivered), and both except clauses
   notify the administrator *)
PostPairings(post, adminOk) ==
  /\ pc = "paired"
  /\ LET sent == Append(calls, [channel |-> Channel, text |-> <<"pairings", pairs>>,
                                ok |-> post = "none"])
     IN calls' = IF post = "none"
                   THEN sent
                   ELSE SendErrorToAdmin(sent, "Failed to complete pairing", adminOk)
  /\ pc' = "done"
  /\ outcome' = "returned"
  /\ UNCHANGED <<entry, members, blocked_pairs, pairs, users>>
  /\ UNCHANGED constructorVars
  /\ UNCHANGED minerVars
  /\ UNCHANGED replayVars

PostStep ==
  \E post \in {"none", "SlackApiError", "Exception"}, adminOk \in BOOLEAN :
    /\ post = "none" => adminOk
    /\ PostPairings(post, adminOk)

Next ==
  \/ RunPairingTestRejects
  \/ CreatePairsBegin
  \/ GreedyStep
  \/ CollectUnpaired
  \/ TrioStep
  \/ PairUnpaired
  \/ ReturnPairs
  \/ GetChannelMembersStep
  \/ WarnStep
  \/ MainCreatePairsStep
  \/ PostStep

Spec == Init /\ [][Next]_vars

----------------------------------------------------------------------------
(* pairing.py: the history miner fetch_recent_pairs *)

(* The channel history is written from tokens: a mention of one of three
   users, a marker phrase, a malformed mention, a line break and the end of a
   message. The place of a token in the stream picks the marker phrase and the
   kind of malformed mention it is written as. *)
MaxTokens == 5

Mention(i) == [kind |-> "mention", n |-> i]
MentionTokens == { Mention(i) : i \in 1..3 }
Marker == [kind |-> "marker", n |-> 0]
Malformed == [kind |-> "malformed", n |-> 0]
NewLine == [kind |-> "newline", n |-> 0]
EndOfMessage == [kind |-> "end", n |-> 0]
Tokens == MentionTokens \cup {Marker, Malformed, NewLine, EndOfMessage}

MarkerTexts ==
  << <<"R", "a", "n", "d", "o", "m", " ", "C", "o", "f", "f", "e", "e", " ">>,
     <<"P", "A", "I", "R", "I", "N", "G", "S", ":">>,
     <<"c", "o", "f", "f", "e", "e", " ", "L", "o", "v", "e", "r", "s", "!">> >>

(* a lowercase id after a word that is no marker, a mention that is not
   closed, and a mention with nothing after the U *)
MalformedTexts ==
  << <<"p", "a", "i", "r", "i", "n", "g", " ", "<", "@", "u", "2", ">">>,
     <<"<", "@", "U", "1">>,
     <<"<", "@", "U", ">", " ", "&", " ">> >>

TokenText(t, place) ==
  CASE t.kind = "mention" -> <<"<", "@">> \o UserId(t.n) \o <<">">>
    [] t.kind = "marker" -> MarkerTexts[(place % 3) + 1]
    [] t.kind = "malformed" -> MalformedTexts[(place % 3) + 1]
    [] t.kind = "newline" -> <<"\n">>
    [] OTHER -> <<>>

Streams == UNION { [1..n -> Tokens] : n \in 0..MaxTokens }

(* the messages of the stream from token i on; cur is the text of the message
   being written *)
RECURSIVE Written(_, _, _)
Written(st, i, cur) ==
  IF i > Len(st) THEN <<cur>>
  ELSE IF st[i] = EndOfMessage THEN <<cur>> \o Written(st, i + 1, <<>>)
  ELSE Written(st, i + 1, cur \o TokenText(st[i], i))

(* the history Slack holds: no message for the empty stream *)
History(st) == IF st = <<>> THEN <<>> ELSE Written(st, 1, <<>>)

coffee_indicators ==
  { <<"c", "o", "f", "f", "e", "e", " ", "l", "o", "v", "e", "r", "s">>,
    <<"r", "a", "n", "d", "o", "m", " ", "c", "o", "f", "f", "e", "e">>,
    <<"p", "a", "i", "r", "i", "n", "g", "s">> }

(* indicator in text *)
Contains(text, pat) ==
  \E i \in 0..(Len(text) - Len(pat)) : SubSeq(text, i + 1, i + Len(pat)) = pat

(* any(indicator in text for indicator in coffee_indicators), text lowered;
   the mutants take every message, or skip lower() *)
IsCoffeeMessageAlways(text) == TRUE

IsCoffeeMessageCaseSensitive(text) ==
  \E indicator \in coffee_indicators : Contains(text, indicator)

IsCoffeeMessage(text) ==
  \E indicator \in coffee_indicators : Contains(Lower(text), indicator)

(* text.split("\n"): the text up to the first line break, then the lines of
   what follows it *)
RECURSIVE SplitLines(_)
SplitLines(text) ==
  LET breaks == { i \in 1..Len(text) : text[i] = "\n" }
  IN IF breaks = {} THEN <<text>>
     ELSE LET b == CHOOSE i \in breaks : \A j \in breaks : i <= j
          IN <<SubSeq(text, 1, b - 1)>> \o SplitLines(SubSeq(text, b + 1, Len(text)))

(* user_pattern = <@(U[A-Z0-9]+)> *)
IsIdChar(c) ==
  \/ \E i \in 1..26 : UpperCase[i] = c
  \/ \E i \in 1..10 : Digits[i] = c

(* the end of the longest run of [A-Z0-9] that starts at position i *)
RECURSIVE RunEnd(_, _)
RunEnd(line, i) ==
  IF i <= Len(line) /\ IsIdChar(line[i]) THEN RunEnd(line, i + 1) ELSE i

(* a match of the pattern at position i ends at the position returned, 0 if
   there is no match at i: the run is never followed by another id character,
   so only the whole run can be followed by the closing bracket *)
MatchEnd(line, i) ==
  IF i + 4 <= Len(line) /\ line[i] = "<" /\ line[i + 1] = "@" /\ line[i + 2] = "U"
    THEN LET e == RunEnd(line, i + 3)
         IN IF e > i + 3 /\ e <= Len(line) /\ line[e] = ">" THEN e ELSE 0
    ELSE 0

(* user_pattern.findall(line): the groups of the non-overlapping matches,
   left to right; the next match is the first one that starts at i or later *)
RECURSIVE FindAll(_, _)
FindAll(line, i) ==
  LET starts == { j \in i..Len(line) : MatchEnd(line, j) > 0 }
  IN IF starts = {} THEN <<>>
     ELSE LET s == CHOOSE j \in starts : \A k \in starts : j <= k
              e == MatchEnd(line, s)
          IN <<SubSeq(line, s + 2, e - 1)>> \o FindAll(line, e + 1)

(* the double loop over the mentions of a line; the mutant pairs neighbours only *)
LinePairsNeighbours(mentions) ==
  IF Len(mentions) >= 2
    THEN { PairKey(mentions[i], mentions[i + 1]) : i \in 1..(Len(mentions) - 1) }
    ELSE {}

LinePairs(mentions) ==
  IF Len(mentions) >= 2
    THEN { PairKey(mentions[p[1]], mentions[p[2]]) :
             p \in { q \in (1..Len(mentions)) \X (1..Len(mentions)) : q[1] < q[2] } }
    ELSE {}

(* the body of the loop over the messages *)
MessagePairs(text) ==
  IF ~IsCoffeeMessage(text) THEN {}
  ELSE LET lines == SplitLines(text)
       IN UNION { LinePairs(FindAll(lines[l], 1)) : l \in 1..Len(lines) }

InitMiner ==
  /\ pc = "start"
  /\ entry = "fetch_recent_pairs"
  /\ stream \in Streams
  /\ messages = History(stream)
  /\ scanned = 0
  /\ retrieval = "none"
  /\ blocked_pairs = {}
  /\ outcome = "none"
  /\ members = <<>>
  /\ member_by_id = <<>>
  /\ member_ids = <<>>
  /\ allowed_pairs = <<>>
  /\ rest = {}
  /\ taken = {}
  /\ pairs = <<>>
  /\ unpaired = <<>>
  /\ users = <<>>
  /\ calls = <<>>
  /\ run = 1
  /\ tape = <<>>
  /\ trio_index = 0
  /\ first = <<>>

otherVars == <<entry, members, member_by_id, member_ids, allowed_pairs, rest, taken,
               pairs, unpaired, users, calls, stream, messages, run, tape, trio_index, first>>

(* get_channel_id and conversations_history; how is "ok", "not_found" (the
   channel is not in the list), "SlackApiError" (conversations_history raises
   it) or "Exception" (a call raises anything else, which nothing catches) *)
FetchHistory(how) ==
  /\ pc = "start" /\ entry = "fetch_recent_pairs"
  /\ retrieval' = how
  /\ blocked_pairs' = {}
  /\ scanned' = 0
  /\ IF how = "ok"
       THEN pc' = "mining" /\ outcome' = outcome
       ELSE /\ pc' = "done"
            /\ outcome' = IF how = "Exception" THEN "Exception" ELSE "returned"
  /\ UNCHANGED otherVars

(* the failures are tried with the short histories: the code does not look at
   the history when the retrieval fails *)
FetchHistoryStep ==
  \E how \in {"ok", "not_found", "SlackApiError", "Exception"} :
    /\ how # "ok" => Len(stream) <= 2
    /\ FetchHistory(how)

(* one iteration of the loop over the messages *)
MineMessage ==
  /\ pc = "mining"
  /\ scanned < Len(messages)
  /\ blocked_pairs' = blocked_pairs \cup MessagePairs(messages[scanned + 1])
  /\ scanned' = scanned + 1
  /\ UNCHANGED <<pc, outcome, retrieval>>
  /\ UNCHANGED otherVars

(* return blocked_pairs *)
ReturnBlockedPairs ==
  /\ pc = "mining"
  /\ scanned = Len(messages)
  /\ pc' = "done"
  /\ outcome' = "returned"
  /\ UNCHANGED <<blocked_pairs, scanned, retrieval>>
  /\ UNCHANGED otherVars

NextMiner ==
  \/ FetchHistoryStep
  \/ MineMessage
  \/ ReturnBlockedPairs

SpecMiner == InitMiner /\ [][NextMiner]_vars

----------------------------------------------------------------------------
(* create_pairs called twice with the same arguments and the same random
   numbers: run 1 records what random.shuffle and random.randint give, run 2
   is given the same. *)
ReplayN == 3

(* a list of ReplayN + 2 members of whom only 1 with 2 and 3 with 4 are allowed *)
ReplaySparse ==
  <<Ascending(ReplayN + 2),
    KeysUpTo(ReplayN + 2) \ {<<UserId(1), UserId(2)>>, <<UserId(3), UserId(4)>>}>>

ReplayInputs ==
  { <<ms, b>> : ms \in { l \in MemberLists : Len(l) <= ReplayN },
                b \in SUBSET KeysUpTo(ReplayN) }

InitReplay ==
  /\ pc = "start"
  /\ entry = "create_pairs"
  /\ \E in \in { i \in ReplayInputs : i[2] \subseteq KeysUpTo(Len(i[1])) } \cup {ReplaySparse} :
       members = in[1] /\ blocked_pairs = in[2]
  /\ member_by_id = <<>>
  /\ member_ids = <<>>
  /\ allowed_pairs = <<>>
  /\ rest = {}
  /\ taken = {}
  /\ pairs = <<>>
  /\ unpaired = <<>>
  /\ outcome = "none"
  /\ users = <<>>
  /\ calls = <<>>
  /\ stream = <<>>
  /\ messages = <<>>
  /\ scanned = 0
  /\ retrieval = "none"
  /\ run = 1
  /\ tape = <<>>
  /\ trio_index = 0
  /\ first = <<>>

RecordGreedyStep ==
  /\ run = 1
  /\ \E k \in rest : GreedyIteration(k) /\ tape' = Append(tape, k)
  /\ UNCHANGED <<run, trio_index, first>>

ReplayGreedyStep ==
  /\ run = 2
  /\ tape # <<>>
  /\ GreedyIteration(Head(tape))
  /\ tape' = Tail(tape)
  /\ UNCHANGED <<run, trio_index, first>>

RecordTrioStep ==
  /\ run = 1
  /\ \E idx \in 0..(Len(pairs) - 1) : AddToRandomPair(idx) /\ trio_index' = idx
  /\ UNCHANGED <<run, tape, first>>

ReplayTrioStep ==
  /\ run = 2
  /\ AddToRandomPair(trio_index)
  /\ UNCHANGED replayVars

(* the second call, with the arguments of the first *)
CallAgain ==
  /\ run = 1
  /\ pc = "done"
  /\ run' = 2
  /\ first' = pairs
  /\ pc' = "start"
  /\ outcome' = "none"
  /\ UNCHANGED <<entry, members, blocked_pairs, member_by_id, member_ids, allowed_pairs,
                 rest, taken, pairs, unpaired, users, calls, tape, trio_index>>
  /\ UNCHANGED minerVars

NextReplay ==
  \/ CreatePairsBegin
  \/ RecordGreedyStep
  \/ ReplayGreedyStep
  \/ CollectUnpaired
  \/ RecordTrioStep
  \/ ReplayTrioStep
  \/ PairUnpaired
  \/ ReturnPairs
  \/ CallAgain

SpecReplay == InitReplay /\ [][NextReplay]_vars

----------------------------------------------------------------------------
(* pairing.py create_pairing_message with use_names False and no topics text
   (main.py create_pairing_message builds the same text), and
   fetch_recent_pairs reading the announcement back. A character that is not
   ASCII is written as one character named by its code point. *)
AnnounceN == 4

(* the parts the message starts with *)
message_parts ==
  << <<"U+2615", " ", "*", "H", "a", "p", "p", "y", " ", "T", "u", "e", "s", "d",
       "a", "y", ",", " ", "C", "o", "f", "f", "e", "e", " ", "L", "o", "v", "e",
       "r", "s", "!", "*", " ", "U+2615", "\n">>,
     <<"I", "t", "'", "s", " ", "t", "i", "m", "e", " ", "f", "o", "r", " ", "o",
       "u", "r", " ", "w", "e", "e", "k", "l", "y", " ", "R", "a", "n", "d", "o",
       "m", " ", "C", "o", "f", "f", "e", "e", " ", "p", "a", "i", "r", "i", "n",
       "g", "s", "!", " ", "U+1F389", "\n", "\n">>,
     <<"H", "e", "r", "e", " ", "a", "r", "e", " ", "t", "h", "i", "s", " ", "w",
       "e", "e", "k", "'", "s", " ", "w", "o", "n", "d", "e", "r", "f", "u", "l",
       " ", "p", "a", "i", "r", "i", "n", "g", "s", ":", "\n", "\n">> >>

(* the parts message_parts.extend adds after the groups *)
closing_parts ==
  << <<"\n", "U+2728", " ", "*", "H", "e", "r", "e", "'", "s", " ", "t", "h", "e",
       " ", "i", "d", "e", "a", ":", "*", " ", "U+2728", "\n">>,
     <<"T", "o", "m", "o", "r", "r", "o", "w", " ", "(", "W", "e", "d", "n", "e",
       "s", "d", "a", "y", ")", " ", "w", "o", "u", "l", "d", " ", "b", "e", " ",
       "a", " ", "l", "o", "v", "e", "l", "y", " ", "d", "a", "y", " ", "f", "o",
       "r", " ", "a", " ", "c", "o", "f", "f", "e", "e", " ", "c", "h", "a", "t",
       "!", " ", "I", "t", "'", "s", " ", "t", "o", "t", "a", "l", "l", "y", " ",
       "o", "p", "t", "i", "o", "n", "a", "l", " ", "a", "n", "d", " ", "t", "h",
       "e", "r", "e", "'", "s", " ", "n", "o", " ", "p", "r", "e", "s", "s", "u",
       "r", "e", " ", "a", "t", " ", "a", "l", "l", ".", " ", "U+1F49B", "\n",
       "\n">>,
     <<"U+1F4C5", " ", "F", "e", "e", "l", " ", "f", "r", "e", "e", " ", "t", "o",
       " ", "s", "c", "h", "e", "d", "u", "l", "e", " ", "a", " ", "q", "u", "i",
       "c", "k", " ", "1", "5", "-", "3", "0", " ", "m", "i", "n", "u", "t", "e",
       " ", "c", "a", "l", "l", " ", "w", "h", "e", "n", "e", "v", "e", "r", " ",
       "w", "o", "r", "k", "s", " ", "b", "e", "s", "t", " ", "f", "o", "r", " ",
       "b", "o", "t", "h", " ", "o", "f", " ", "y", "o", "u", ".", "\n">>,
     <<"U+1F4AC", " ", "C", "h", "a", "t", " ", "a", "b", "o", "u", "t", " ", "a",
       "n", "y", "t", "h", "i", "n", "g", " ", "-", " ", "h", "o", "b", "b", "i",
       "e", "s", ",", " ", "w", "e", "e", "k", "e", "n", "d", " ", "p", "l", "a",
       "n", "s", ",", " ", "f", "u", "n", " ", "p", "r", "o", "j", "e", "c", "t",
       "s", ",", " ", "o", "r", " ", "j", "u", "s", "t", " ", "s", "a", "y", " ",
       "h", "i", "!", "\n">>,
     <<"U+1F91D", " ", "I", "f", " ", "t", "h", "i", "s", " ", "w", "e", "e", "k",
       " ", "d", "o", "e", "s", "n", "'", "t", " ", "w", "o", "r", "k", " ", "o",
       "u", "t", ",", " ", "n", "o", " ", "w", "o", "r", "r", "i", "e", "s", "!",
       " ", "T", "h", "e", "r", "e", "'", "s", " ", "a", "l", "w", "a", "y", "s",
       " ", "n", "e", "x", "t", " ", "T", "u", "e", "s", "d", "a", "y", ".", "\n",
       "\n">>,
     <<"H", "a", "v", "e", " ", "a", " ", "w", "o", "n", "d", "e", "r", "f", "u",
       "l", " ", "w", "e", "e", "k", ",", " ", "e", "v", "e", "r", "y", "o", "n",
       "e", "!", " ", "U+1F31F">> >>

(* "".join *)
RECURSIVE Join(_)
Join(parts) == IF parts = <<>> THEN <<>> ELSE Head(parts) \o Join(Tail(parts))

(* str(i) of the f-string *)
RECURSIVE Str(_)
Str(i) ==
  IF i < 10 THEN <<Digits[i + 1]>> ELSE Str(i \div 10) \o <<Digits[(i % 10) + 1]>>

(* fmt: the mention; the mutant is use_names, which shows the name *)
FmtName(member) == Str(member.name)

Fmt(member) == <<"<", "@">> \o member.id \o <<">">>

(* the line of group i *)
GroupLine(i, group) ==
  IF Len(group) = 2
    THEN Str(i) \o <<".", " ">> \o Fmt(group[1]) \o <<" ", "&", " ">> \o Fmt(group[2])
         \o <<" ", "U+2615", "\n">>
  ELSE IF Len(group) = 3
    THEN Str(i) \o <<".", " ">> \o Fmt(group[1]) \o <<",", " ">> \o Fmt(group[2])
         \o <<" ", "&", " ">> \o Fmt(group[3])
         \o <<" ", "U+2615", " ", "(", "t", "r", "i", "o", "!", ")", "\n">>
  ELSE Str(i) \o <<".", " ">> \o Fmt(group[1])
       \o <<" ", "-", " ", "Y", "o", "u", "'", "r", "e", " ", "f", "l", "y", "i",
            "n", "g", " ", "s", "o", "l", "o", " ", "t", "h", "i", "s", " ", "w",
            "e", "e", "k", "!", " ", "U+1F499", "\n">>

(* for i, group in enumerate(pairs, 1) *)
RECURSIVE GroupLines(_, _)
GroupLines(ps, i) ==
  IF i > Len(ps) THEN <<>> ELSE GroupLine(i, ps[i]) \o GroupLines(ps, i + 1)

CreatePairingMessage(ps) ==
  Join(message_parts) \o GroupLines(ps, 1) \o Join(closing_parts)

(* a list of AnnounceN + 1 members of whom only 1 with 2 and 3 with 4 are allowed *)
AnnounceSparse ==
  <<Descending(AnnounceN + 1),
    KeysUpTo(AnnounceN + 1) \ {<<UserId(1), UserId(2)>>, <<UserId(3), UserId(4)>>}>>

(* the lists of up to AnnounceN members with nothing blocked, one pair blocked
   or every pair blocked *)
AnnounceInputs ==
  UNION { { <<ms, b>> : b \in {{}, KeysUpTo(Len(ms))} \cup { {key} : key \in KeysUpTo(Len(ms)) } } :
          ms \in { l \in MemberLists : Len(l) <= AnnounceN } }
  \cup {AnnounceSparse}

InitAnnounce ==
  /\ pc = "start"
  /\ entry = "create_pairs"
  /\ \E in \in AnnounceInputs : members = in[1] /\ blocked_pairs = in[2]
  /\ member_by_id = <<>>
  /\ member_ids = <<>>
  /\ allowed_pairs = <<>>
  /\ rest = {}
  /\ taken = {}
  /\ pairs = <<>>
  /\ unpaired = <<>>
  /\ outcome = "none"
  /\ users = <<>>
  /\ calls = <<>>
  /\ stream = <<>>
  /\ messages = <<>>
  /\ scanned = 0
  /\ retrieval = "none"
  /\ run = 1
  /\ tape = <<>>
  /\ trio_index = 0
  /\ first = <<>>

(* the groups create_pairs returned are announced: the text of
   create_pairing_message is the one message of the channel history, and
   fetch_recent_pairs is called next *)
Announce ==
  /\ pc = "done" /\ outcome = "returned" /\ entry = "create_pairs"
  /\ messages' = <<CreatePairingMessage(pairs)>>
  /\ entry' = "fetch_recent_pairs"
  /\ pc' = "start"
  /\ outcome' = "none"
  /\ UNCHANGED <<members, blocked_pairs, member_by_id, member_ids, allowed_pairs,
                 rest, taken, pairs, unpaired, users, calls, stream, scanned, retrieval>>
  /\ UNCHANGED replayVars

(* the history is retrieved *)
ReadAnnouncement == FetchHistory("ok")

NextAnnounce ==
  \/ CreatePairsBegin
  \/ GreedyStep
  \/ CollectUnpaired
  \/ TrioStep
  \/ PairUnpaired
  \/ ReturnPairs
  \/ Announce
  \/ ReadAnnouncement
  \/ MineMessage
  \/ ReturnBlockedPairs

SpecAnnounce == InitAnnounce /\ [][NextAnnounce]_vars

----------------------------------------------------------------------------
(* Properties *)

Positions == UNION { { <<g, k>> : k \in 1..Len(pairs[g]) } : g \in 1..Len(pairs) }
Occurrences(m) == Cardinality({ p \in Positions : pairs[p[1]][p[2]] = m })
EveryMemberOnce ==
  /\ \A i \in 1..Len(members) : Occurrences(members[i]) = 1
  /\ \A p \in Positions : \E i \in 1..Len(members) : pairs[p[1]][p[2]] = members[i]
Returned == pc = "done" /\ outcome = "returned" /\ entry # "pair_and_notify"
Blocked(a, b) == <<a, b>> \in blocked_pairs \/ <<b, a>> \in blocked_pairs

(* C1: whatever the member list (distinct ids), the blocking set and the random
   outcomes, the groups create_pairs returns hold every input member in exactly
   one group, no member twice in a group, and every group has 1, 2 or 3 members. *)
C1_PartitionComplete ==
  Returned =>
    /\ EveryMemberOnce
    /\ \A g \in 1..Len(pairs) : Len(pairs[g]) \in 1..3

(* C2 as stated: the constructor never returns a group list when it is invoked
   with fewer than 2 members. *)
C2_ConstructorRejectsFewerThanTwo ==
  (entry # "pair_and_notify" /\ Len(members) < 2) => outcome # "returned"

(* C2 as amended: run_pairing_test raises ValueError for fewer than 2 members
   and never calls create_pairs; create_pairs called directly with fewer than 2
   members does not fail and returns the empty list. *)
C2_CallerRejectsFewerThanTwo ==
  (entry # "pair_and_notify" /\ Len(members) < 2) =>
    /\ entry = "run_pairing_test" =>
         /\ pc \in {"start", "done"}
         /\ outcome \in {"none", "ValueError"}
         /\ pc = "done" => outcome = "ValueError"
         /\ pairs = <<>> /\ member_ids = <<>>
    /\ entry = "create_pairs" =>
         /\ outcome \in {"none", "returned"}
         /\ pairs = <<>>

C2_Witness ==
  /\ pc = "done" /\ entry = "run_pairing_test"
  /\ Len(members) = 1 /\ outcome = "ValueError"

(* C6: when 2 or more members are unclaimed after the greedy pass, they are
   paired off consecutively in input order whatever the blocking set says, an
   odd last one joins the last group so formed, the committed groups stay as
   they were, and the result is a complete partition. *)
C6_ResidualPairedInOrder ==
  (Returned /\ Len(unpaired) >= 2) =>
    LET n == Len(unpaired)
        r == n \div 2
        k == Len(pairs) - r
        Free(m) == m.id \notin taken
    IN /\ k >= 0
       /\ unpaired = SelectSeq(members, Free)
       /\ \A g \in 1..k :
            Len(pairs[g]) = 2 /\ pairs[g][1].id \in taken /\ pairs[g][2].id \in taken
       /\ \A i \in 1..r :
            /\ pairs[k + i][1] = unpaired[2 * i - 1]
            /\ pairs[k + i][2] = unpaired[2 * i]
            /\ Len(pairs[k + i]) = IF i = r /\ n % 2 = 1 THEN 3 ELSE 2
       /\ n % 2 = 1 => pairs[k + r][3] = unpaired[n]
       /\ EveryMemberOnce

C6_Witness ==
  /\ Returned
  /\ Len(unpaired) = 3 /\ Len(pairs) = 2
  /\ Len(pairs[2]) = 3
  /\ Blocked(pairs[2][1].id, pairs[2][2].id)
  /\ Blocked(pairs[2][1].id, pairs[2][3].id)

(* C10: between the greedy pass and the residual resolution every committed
   group is a pair of two distinct members that is not blocked, no member is in
   two groups, and every two distinct unclaimed members are blocked. *)
C10_GreedyMatchingMaximal ==
  pc = "residual" =>
    /\ \A g \in 1..Len(pairs) :
         /\ Len(pairs[g]) = 2
         /\ pairs[g][1].id # pairs[g][2].id
         /\ ~Blocked(pairs[g][1].id, pairs[g][2].id)
    /\ \A i \in 1..Len(members) : Occurrences(members[i]) <= 1
    /\ \A i \in 1..Len(members) :
         Occurrences(members[i]) = 0 <=> \E u \in 1..Len(unpaired) : unpaired[u] = members[i]
    /\ \A u, v \in 1..Len(unpaired) :
         u # v => /\ unpaired[u].id # unpaired[v].id
                  /\ Blocked(unpaired[u].id, unpaired[v].id)

C10_Witness ==
  /\ pc = "residual"
  /\ Len(pairs) >= 1 /\ Len(unpaired) >= 2
  /\ Len(members) <= MaxN

GroupsOfSize(k) == { g \in 1..Len(pairs) : Len(pairs[g]) = k }
MainPaired == entry = "pair_and_notify" /\ (pc = "paired" \/ (pc = "done" /\ Len(members) >= 2))

(* C7: with nothing blocked and N >= 2 members, either constructor returns N/2
   groups of two when N is even, and groups of two and exactly one trio when
   N is odd, every member in exactly one group. *)
C7_UnblockedGroupSizes ==
  ((Returned \/ MainPaired) /\ blocked_pairs = {} /\ Len(members) >= 2) =>
    /\ EveryMemberOnce
    /\ Len(pairs) = Len(members) \div 2
    /\ Cardinality(GroupsOfSize(3)) = Len(members) % 2
    /\ Cardinality(GroupsOfSize(2)) = Len(pairs) - (Len(members) % 2)

C7_Witness ==
  /\ Returned /\ blocked_pairs = {}
  /\ Len(members) = 5
  /\ Len(pairs) = 2 /\ Len(pairs[1]) = 3 /\ Len(pairs[2]) = 2

AdminCalls == { i \in 1..Len(calls) : calls[i].channel = DEFAULT_ERROR_RECIPIENT }
ChannelCalls == { i \in 1..Len(calls) : calls[i].channel = Channel }

(* C9: a scheduled run that retrieves fewer than 2 members posts nothing to the
   channel, ends with a warning sent to the administrator recipient as its last
   call, and never runs the pairing. *)
C9_TooFewMembersWarnsAdmin ==
  (entry = "pair_and_notify" /\ pc \in {"got_members", "done"} /\ Len(members) < 2) =>
    /\ ChannelCalls = {}
    /\ pairs = <<>>
    /\ pc = "done" =>
         /\ outcome = "returned"
         /\ calls # <<>>
         /\ calls[Len(calls)].channel = DEFAULT_ERROR_RECIPIENT
         /\ calls[Len(calls)].text = "Pairing Process Warning"
         /\ Cardinality({ i \in AdminCalls : calls[i].text = "Pairing Process Warning" }) = 1

C9_Witness ==
  /\ entry = "pair_and_notify" /\ pc = "done"
  /\ Len(users) = 2 /\ Len(members) = 1
  /\ Len(calls) = 1 /\ calls[1].ok

(* What the stream says: tokens on one line, tokens in one message, messages
   with a marker. *)
Between(i, j) == IF i <= j THEN i..j ELSE j..i
SameMessage(i, j) == \A k \in Between(i, j) : stream[k] # EndOfMessage
SameLine(i, j) == \A k \in Between(i, j) : stream[k] \notin {NewLine, EndOfMessage}
InMarkerMessage(i) == \E k \in 1..Len(stream) : stream[k] = Marker /\ SameMessage(i, k)
IsMention(i) == stream[i] \in MentionTokens
KeyOf(a, b) == IF a <= b THEN <<UserId(a), UserId(b)>> ELSE <<UserId(b), UserId(a)>>
MentionedTogether ==
  { q \in (1..Len(stream)) \X (1..Len(stream)) :
      /\ q[1] < q[2]
      /\ IsMention(q[1]) /\ IsMention(q[2])
      /\ SameLine(q[1], q[2])
      /\ InMarkerMessage(q[1]) }
Mined == entry = "fetch_recent_pairs" /\ pc = "done" /\ retrieval = "ok"

(* C3: the blocking set is exactly the set of the pairs of mentions that stand
   on one line of a message with a marker: all pairs of such a line, and no
   pair across lines or messages. *)
C3_BlockedPairsArePerLinePairs ==
  Mined =>
    /\ outcome = "returned"
    /\ blocked_pairs = { KeyOf(stream[q[1]].n, stream[q[2]].n) : q \in MentionedTogether }

C3_Witness ==
  /\ Mined
  /\ Len(stream) = 5 /\ stream[1] = Marker /\ stream[2] = NewLine
  /\ Cardinality(blocked_pairs) = 3

(* C4: the miner never fails on the content of the history, and at any point
   of the mining every blocked pair comes from two well-formed mentions on one
   line of a message with a marker: messages without a marker, lines with one
   mention and malformed mentions add nothing. *)
C4_NoSignalIsNoError ==
  (entry = "fetch_recent_pairs" /\ retrieval = "ok") =>
    /\ outcome \in {"none", "returned"}
    /\ pc = "done" => outcome = "returned"
    /\ \A key \in blocked_pairs :
         \E q \in MentionedTogether : key = KeyOf(stream[q[1]].n, stream[q[2]].n)

C4_Witness ==
  /\ Mined /\ outcome = "returned"
  /\ blocked_pairs = {}
  /\ Len(stream) = 5
  /\ IsMention(1) /\ IsMention(2) /\ stream[3] = EndOfMessage
  /\ stream[4] = Marker /\ stream[5] = Malformed

(* C5: a failed retrieval of the history (channel not found, or
   conversations_history raising SlackApiError) is never reported as a
   returned blocking set. *)
C5_RetrievalFailureSignaled ==
  (entry = "fetch_recent_pairs" /\ pc = "done" /\ retrieval \in {"not_found", "SlackApiError"}) =>
    outcome # "returned"

(* C8: a second call of create_pairs with the same member list, the same
   blocking set, the same shuffle and the same random_pair_index returns the
   same groups in the same order, with the members of each group in the same
   order. *)
C8_SameRandomnessSameGroups ==
  (run = 2 /\ pc = "done") => (outcome = "returned" /\ pairs = first)

C8_Witness ==
  /\ run = 2 /\ pc = "done"
  /\ Len(first) = 2 /\ Len(first[2]) = 3
  /\ pairs = first

HoldsBlockedPair(g) ==
  \E i, j \in 1..Len(pairs[g]) : i < j /\ Blocked(pairs[g][i].id, pairs[g][j].id)
AllowedKeys == KeysUpTo(Len(members)) \ blocked_pairs
PerfectAllowedMatchingExists ==
  \E matching \in SUBSET AllowedKeys :
    /\ \A i \in 1..Len(members) :
         Cardinality({ key \in matching : members[i].id \in {key[1], key[2]} }) = 1

(* C11: the greedy pass is not optimal. A returned group holds a blocked pair
   only when the greedy pass left members unclaimed, and when it left two or
   more the groups made of them hold blocked pairs; the witness is a run where
   a perfect matching of allowed pairs exists and the greedy pass still leaves
   two members, who are returned as a blocked pair. *)
C11_BlockedPairOnlyFromResidual ==
  Returned =>
    /\ Len(unpaired) = 0 => \A g \in 1..Len(pairs) : ~HoldsBlockedPair(g)
    /\ Len(unpaired) >= 2 => HoldsBlockedPair(Len(pairs))

C11_Witness ==
  /\ Returned
  /\ Len(members) = 4
  /\ PerfectAllowedMatchingExists
  /\ Len(unpaired) = 2
  /\ Len(pairs) = 2 /\ ~HoldsBlockedPair(1) /\ HoldsBlockedPair(2)

(* C12: when one member is unclaimed and a group exists, the step appends that
   member to one existing group, which becomes a trio, leaves every other group
   as it was and creates no group, whether or not the member is blocked with
   the group it joins. *)
C12_OddMemberJoinsOneGroup ==
  [][(pc = "residual" /\ entry # "pair_and_notify" /\ Len(unpaired) = 1 /\ Len(pairs) > 0) =>
       /\ pc' = "done" /\ outcome' = "returned"
       /\ Len(pairs') = Len(pairs)
       /\ \E g \in 1..Len(pairs) :
            /\ Len(pairs[g]) = 2
            /\ pairs'[g] = <<pairs[g][1], pairs[g][2], unpaired[1]>>
            /\ \A h \in 1..Len(pairs) : h # g => pairs'[h] = pairs[h]]_vars

(* the last of two groups was chosen, and the member is blocked with both of
   its members *)
C12_Witness ==
  /\ Returned
  /\ Len(unpaired) = 1
  /\ Len(pairs) = 2 /\ Len(pairs[1]) = 2 /\ Len(pairs[2]) = 3
  /\ pairs[2][3] = unpaired[1]
  /\ Blocked(pairs[2][1].id, pairs[2][3].id)
  /\ Blocked(pairs[2][2].id, pairs[2][3].id)

(* C13: called with a single member, so that one member is unclaimed and no
   group was committed, the constructor returns one solo group holding that
   member. *)
C13_SingleMemberIsSolo ==
  (Returned /\ Len(members) = 1) => pairs = << <<members[1]>> >>

(* C15: for N >= 2 members, whatever is blocked and whatever is drawn, the
   constructor returns exactly N \div 2 groups, none of one member, all of two
   members but for exactly one of three when N is odd. *)
C15_GroupCountAndSizes ==
  (Returned /\ Len(members) >= 2) =>
    /\ Len(pairs) = Len(members) \div 2
    /\ GroupsOfSize(1) = {}
    /\ \A g \in 1..Len(pairs) : Len(pairs[g]) \in {2, 3}
    /\ Cardinality(GroupsOfSize(3)) = (IF Len(members) % 2 = 1 THEN 1 ELSE 0)

(* an odd list, all members mutually blocked *)
C15_Witness ==
  /\ Returned
  /\ Len(members) = 5 /\ Len(unpaired) = 5
  /\ Len(pairs) = 2 /\ Len(pairs[1]) = 2 /\ Len(pairs[2]) = 3

(* C14: every element of the mined blocking set is a pair of two distinct
   member ids in sorted order, also when a line mentions a member twice. *)
C14_BlockedPairsAreCanonicalKeys ==
  entry = "fetch_recent_pairs" =>
    \A key \in blocked_pairs :
      /\ key[1] # key[2]
      /\ StrLess(key[1], key[2])

(* C16: mining the announcement built from the groups the constructor returned
   gives exactly the sorted pairs of the members who share a group: one per
   pair, three per trio, none for a group of one. *)
Announced ==
  /\ entry = "fetch_recent_pairs" /\ pc = "done" /\ retrieval = "ok"
  /\ stream = <<>> /\ Len(messages) = 1
SharedGroupKeys ==
  UNION { { IF pairs[g][p[1]].name <= pairs[g][p[2]].name
              THEN <<pairs[g][p[1]].id, pairs[g][p[2]].id>>
              ELSE <<pairs[g][p[2]].id, pairs[g][p[1]].id>> :
            p \in { q \in (1..Len(pairs[g])) \X (1..Len(pairs[g])) : q[1] < q[2] } } :
          g \in 1..Len(pairs) }
C16_AnnouncementMinesToGroups ==
  Announced =>
    /\ blocked_pairs = SharedGroupKeys
    /\ Cardinality(blocked_pairs) =
         Cardinality(GroupsOfSize(2)) + 3 * Cardinality(GroupsOfSize(3))

(* a trio and a pair, the trio written with the higher id first, are
   announced and mined *)
C16_Witness ==
  /\ Announced
  /\ Len(pairs) = 2 /\ Len(pairs[1]) = 3 /\ Len(pairs[2]) = 2
  /\ pairs[1][2].name < pairs[1][1].name
  /\ Cardinality(blocked_pairs) = 4

(* C17: a scheduled run never ends with an exception: it returns normally also
   when a notification of the administrator fails; a run that does not deliver
   the announcement has tried to notify the administrator, and a failed post is
   followed by that notification; the announcement is posted at most once, and
   only once 2 or more members were retrieved and the groups were created. *)
Delivered == \E i \in ChannelCalls : calls[i].ok
C17_ScheduledRunNeverRaises ==
  entry = "pair_and_notify" =>
    /\ outcome \in {"none", "returned"}
    /\ pc = "done" =>
         /\ outcome = "returned"
         /\ Delivered \/ AdminCalls # {}
    /\ Cardinality(ChannelCalls) <= 1
    /\ \A i \in ChannelCalls :
         /\ pc = "done" /\ Len(members) >= 2 /\ pairs # <<>>
         /\ calls[i].text = <<"pairings", pairs>>
         /\ ~calls[i].ok =>
              /\ i < Len(calls)
              /\ calls[i + 1].channel = DEFAULT_ERROR_RECIPIENT
              /\ calls[i + 1].text = "Failed to complete pairing"

(* the post fails, the notification of the administrator fails too, and the
   run has returned *)
C17_Witness ==
  /\ entry = "pair_and_notify" /\ pc = "done" /\ outcome = "returned"
  /\ Len(calls) = 2
  /\ calls[1].channel = Channel /\ ~calls[1].ok
  /\ calls[2].channel = DEFAULT_ERROR_RECIPIENT /\ ~calls[2].ok

====
